---- MODULE Spec2Model ----
(***************************************************************************)
(* A model of the Arnold render handler of the Maya adaptor                *)
(* (maya_adaptor/MayaClient/render_handlers/arnold_handler.py) and of the  *)
(* submitter command (maya_submitter/mel_commands.py).                     *)
(*                                                                         *)
(* The handler keeps one dictionary, render_kwargs, for its whole life and *)
(* talks to the host document through getAttr / setAttr / arnoldRender.    *)
(* Each handler method is one action; the body of start_render is a chain  *)
(* of steps over a machine record so that an exception leaves exactly the  *)
(* writes made before it, as in Python.                                    *)
(***************************************************************************)
EXTENDS Integers, Sequences, FiniteSets, TLC

VARIABLES render_kwargs, host, lastCall, ui, cmdResult, lastCmd

vars == <<render_kwargs, host, lastCall, ui, cmdResult, lastCmd>>
handlerVars == <<render_kwargs, host, lastCall>>
cmdVars == <<ui, cmdResult, lastCmd>>

(* ------------------------------ bounds -------------------------------- *)
\* largest image width / height drawn for the host document and the actions
MaxDim == 3
\* largest tile count (and tile index) drawn for a tiled render
MaxTiles == 2
\* largest frame number drawn
MaxFrame == 1
\* number of submitter commands of one host session
MaxCmds == 3

(* --------------------------- Python values ---------------------------- *)
\* A value of the job-parameter mapping: None, an int, a float (v counts
\* halves: v = 3 is 1.5), a decimal string (v is the number it spells) or a
\* non-numeric string (v numbers the text).
None == [t |-> "none", v |-> 0]
PyInt(n) == [t |-> "int", v |-> n]
PyFloat(h) == [t |-> "float", v |-> h]
PyStr(n) == [t |-> "str", v |-> n]
PyWord(k) == [t |-> "word", v |-> k]

\* isinstance(x, int)
IsInt(x) == x.t = "int"

\* x truncated toward zero, x given in halves
TruncHalves(h) == IF h >= 0 THEN h \div 2 ELSE -((-h) \div 2)

\* int(x): [ok, v]; None raises TypeError, a non-numeric string ValueError
IntOf(x) ==
    CASE x.t = "int" -> [ok |-> "ok", v |-> x.v]
      [] x.t = "float" -> [ok |-> "ok", v |-> TruncHalves(x.v)]
      [] x.t = "str" -> [ok |-> "ok", v |-> x.v]
      [] x.t = "none" -> [ok |-> "TypeError", v |-> 0]
      [] OTHER -> [ok |-> "ValueError", v |-> 0]

\* the text an f-string makes of a value; None prints as the text "None"
NoneText == 1
FormatOf(x) ==
    CASE x.t = "none" -> PyWord(NoneText)
      [] x.t = "int" -> PyStr(x.v)
      [] OTHER -> x

(* ------------------------- the handler's state ------------------------ *)
\* render_kwargs after ArnoldHandler.__init__
InitKwargs == [batch |-> TRUE]

\* d with d[k] = val
SetKw(d, k, val) == [x \in (DOMAIN d) \cup {k} |-> IF x = k THEN val ELSE d[x]]

\* the host document's attributes the handler reads and writes
InitHost(w, h, verbosity) ==
    [resW |-> w, resH |-> h,
     regionMinX |-> 0, regionMaxX |-> w - 1,
     regionMinY |-> 0, regionMaxY |-> h - 1,
     imageFilePrefix |-> [tile |-> <<>>, name |-> PyWord(0)],
     renderType |-> 1,
     log_verbosity |-> verbosity]

\* the machine a handler body runs on
Machine(kw, hst) ==
    [kw |-> kw, host |-> hst, calls |-> <<>>, out |-> "running", render |-> <<>>]

Raise(m, err) == [m EXCEPT !.out = err]

\* maya.cmds.getAttr(attr): the read is logged, the value is m.host[attr]
GetAttr(m, attr) == [m EXCEPT !.calls = Append(@, <<"getAttr", attr>>)]

\* maya.cmds.setAttr(attr, val)
SetAttr(m, attr, val) ==
    [m EXCEPT !.host = [@ EXCEPT ![attr] = val],
              !.calls = Append(@, <<"setAttr", attr>>)]

(* ---------------------- ArnoldHandler.start_render -------------------- *)
\* StepFrame testing the frame for truth ("if not frame"): frame 0 is refused
StepFrameFalsy(m, data) ==
    IF m.out # "running" THEN m
    ELSE IF data.frame = None \/ data.frame = PyInt(0) THEN Raise(m, "RuntimeError")
    ELSE [m EXCEPT !.kw = SetKw(@, "seq", data.frame)]

\* lines 29-32: the frame is required; it becomes render_kwargs["seq"]
StepFrame(m, data) ==
    IF m.out # "running" THEN m
    ELSE IF data.frame = None THEN Raise(m, "RuntimeError")
    ELSE [m EXCEPT !.kw = SetKw(@, "seq", data.frame)]

\* line 34: get_camera_to_render(data) returns the camera to render or
\* raises RuntimeError when none is found (docstring, lines 26-27);
\* data.cam is what the lookup finds.
NoCamera == "NoCamera"
StepCamera(m, data) ==
    IF m.out # "running" THEN m
    ELSE IF data.cam = NoCamera THEN Raise(m, "RuntimeError")
    ELSE [m EXCEPT !.kw = SetKw(@, "camera", data.cam)]

\* lines 36-41: width defaults to the host resolution when the key is absent
StepDefaultWidth(m) ==
    IF m.out # "running" \/ "width" \in DOMAIN m.kw THEN m
    ELSE LET g == GetAttr(m, "resW")
         IN [g EXCEPT !.kw = SetKw(@, "width", g.host.resW)]

\* lines 42-47: the same for height
StepDefaultHeight(m) ==
    IF m.out # "running" \/ "height" \in DOMAIN m.kw THEN m
    ELSE LET g == GetAttr(m, "resH")
         IN [g EXCEPT !.kw = SetKw(@, "height", g.host.resH)]

\* TileBounds with the remainder dropped
TileBoundsNoRemainder(size, n, t) ==
    LET delta == size \div n
    IN [lo |-> delta * (t - 1), hi |-> (delta * t) - 1]

\* TileBounds with an exclusive upper bound
TileBoundsExclusive(size, n, t) ==
    LET delta == size \div n
        hi == delta * t
    IN [lo |-> delta * (t - 1), hi |-> IF t = n THEN hi + (size % n) ELSE hi]

\* lines 67-83 for one axis: divmod, the inclusive bounds of tile t of n,
\* the remainder added to the last tile
TileBounds(size, n, t) ==
    LET delta == size \div n
        remainder == size % n
        lo == delta * (t - 1)
        hi == (delta * t) - 1
    IN [lo |-> lo, hi |-> IF t = n THEN hi + remainder ELSE hi]

\* lines 92-100: "_tile_<y>x<x>_<numY>x<numX>_<prefix>"
TilePrefix(data) ==
    [tile |-> <<data.tileNumY.v, data.tileNumX.v, data.numYTiles.v, data.numXTiles.v>>,
     name |-> FormatOf(data.output_file_prefix)]

\* lines 53: a tile job is one with both tile counts given
IsTileJob(data) == data.numXTiles # None /\ data.numYTiles # None

\* WriteTile without the write of the prefix
WriteTileNoPrefix(m, data) ==
    LET bx == TileBounds(m.kw.width, data.numXTiles.v, data.tileNumX.v)
        by == TileBounds(m.kw.height, data.numYTiles.v, data.tileNumY.v)
        m1 == SetAttr(m, "regionMinX", bx.lo)
        m2 == SetAttr(m1, "regionMaxX", bx.hi)
        m3 == SetAttr(m2, "regionMinY", by.lo)
    IN SetAttr(m3, "regionMaxY", by.hi)

\* lines 85-102: the five writes of a tile job, then the read for the log line
WriteTile(m, data) ==
    LET bx == TileBounds(m.kw.width, data.numXTiles.v, data.tileNumX.v)
        by == TileBounds(m.kw.height, data.numYTiles.v, data.tileNumY.v)
        m1 == SetAttr(m, "regionMinX", bx.lo)
        m2 == SetAttr(m1, "regionMaxX", bx.hi)
        m3 == SetAttr(m2, "regionMinY", by.lo)
        m4 == SetAttr(m3, "regionMaxY", by.hi)
        m5 == SetAttr(m4, "imageFilePrefix", TilePrefix(data))
    IN GetAttr(m5, "imageFilePrefix")

\* StepTiles without the check of tileNumX and tileNumY
StepTilesNoIndexCheck(m, data) ==
    IF m.out # "running" \/ ~IsTileJob(data) THEN m
    ELSE IF ~IsInt(data.numXTiles) \/ ~IsInt(data.numYTiles)
         THEN Raise(m, "RuntimeError")
    ELSE IF data.numXTiles.v = 0 \/ data.numYTiles.v = 0
         THEN Raise(m, "ZeroDivisionError")
    ELSE WriteTile(m, data)

\* lines 49-102
StepTiles(m, data) ==
    IF m.out # "running" \/ ~IsTileJob(data) THEN m
    ELSE IF ~IsInt(data.numXTiles) \/ ~IsInt(data.numYTiles)
         THEN Raise(m, "RuntimeError")
    ELSE IF ~IsInt(data.tileNumX) \/ ~IsInt(data.tileNumY)
         THEN Raise(m, "RuntimeError")
    ELSE IF data.numXTiles.v = 0 \/ data.numYTiles.v = 0
         THEN Raise(m, "ZeroDivisionError")
    ELSE WriteTile(m, data)

\* line 105
StepRenderType(m) ==
    IF m.out # "running" THEN m ELSE SetAttr(m, "renderType", 0)

\* StepVerbosity setting 2 whatever the value was
StepVerbosityAlways(m) ==
    IF m.out # "running" THEN m ELSE SetAttr(m, "log_verbosity", 2)

\* lines 108-109: the verbosity is raised to 2, never lowered
StepVerbosity(m) ==
    IF m.out # "running" THEN m
    ELSE LET g == GetAttr(m, "log_verbosity")
         IN IF g.host.log_verbosity < 2 THEN SetAttr(g, "log_verbosity", 2) ELSE g

\* line 111: arnoldRender(**render_kwargs); the invocation is recorded with
\* the keyword arguments it gets and the host attributes it finds
StepRender(m) ==
    IF m.out # "running" THEN m
    ELSE [m EXCEPT !.calls = Append(@, <<"arnoldRender", "">>),
                   !.render = Append(@, [kwargs |-> m.kw, host |-> m.host])]

\* line 112: the method returns
StepReturn(m) == IF m.out # "running" THEN m ELSE [m EXCEPT !.out = "ok"]

\* the whole body, lines 29-112
RunStartRender(kw, hst, data) ==
    StepReturn(StepRender(StepVerbosity(StepRenderType(
        StepTiles(StepDefaultHeight(StepDefaultWidth(
            StepCamera(StepFrame(Machine(kw, hst), data), data))), data)))))

CallRecord(op, data, m) ==
    [op |-> op, data |-> data, out |-> m.out, calls |-> m.calls, render |-> m.render]

start_render(data) ==
    \E m \in {RunStartRender(render_kwargs, host, data)} :
       /\ render_kwargs' = m.kw
       /\ host' = m.host
       /\ lastCall' = CallRecord("start_render", data, m)
       /\ UNCHANGED cmdVars

(* ------------- set_image_width / set_image_height (140-160) ----------- *)
\* data.get(key, 0): an absent key reads as the int 0
Absent == [t |-> "absent", v |-> 0]
GetOrZero(x) == IF x = Absent THEN PyInt(0) ELSE x

\* RunSetResolution without the test for a non-zero result
RunSetResolutionAlways(kw, hst, key, x) ==
    LET r == IntOf(GetOrZero(x))
    IN IF r.ok # "ok" THEN Raise(Machine(kw, hst), r.ok)
       ELSE [Machine(kw, hst) EXCEPT !.kw = SetKw(@, key, r.v), !.out = "ok"]

\* int(data.get(key, 0)); the key is set only for a non-zero result
RunSetResolution(kw, hst, key, x) ==
    LET m == Machine(kw, hst)
        r == IntOf(GetOrZero(x))
    IN IF r.ok # "ok" THEN Raise(m, r.ok)
       ELSE IF r.v # 0 THEN [m EXCEPT !.kw = SetKw(@, key, r.v), !.out = "ok"]
       ELSE [m EXCEPT !.out = "ok"]

set_image_width(x) ==
    \E m \in {RunSetResolution(render_kwargs, host, "width", x)} :
       /\ render_kwargs' = m.kw
       /\ lastCall' = CallRecord("set_image_width", [image_width |-> x], m)
       /\ UNCHANGED <<host, cmdVars>>

set_image_height(x) ==
    \E m \in {RunSetResolution(render_kwargs, host, "height", x)} :
       /\ render_kwargs' = m.kw
       /\ lastCall' = CallRecord("set_image_height", [image_height |-> x], m)
       /\ UNCHANGED <<host, cmdVars>>

(* ------------------------- the host document -------------------------- *)
\* The scene's defaultResolution is the host's own state: the handler only
\* reads it (lines 37, 43), and the artist or another command may change it
\* between two handler calls.
HostSetResolution(w, h) ==
    /\ <<w, h>> # <<host.resW, host.resH>>
    /\ host' = [host EXCEPT !.resW = w, !.resH = h]
    /\ lastCall' = CallRecord("host_edit", [w |-> w, h |-> h],
                              [Machine(render_kwargs, host) EXCEPT !.out = "ok"])
    /\ UNCHANGED <<render_kwargs, cmdVars>>

(* ---------------- DeadlineCloudSubmitterCmd.doIt (34-74) -------------- *)
\* RenderSubmitterUISettings(): the default settings of the dialog
DefaultUISettings == [saved |-> 0]

\* rs_settings.apply_saved_settings(saved): the saved values replace the defaults
ApplySavedSettings(settings, saved) == [settings EXCEPT !.saved = saved]

\* json.dumps(dataclasses.asdict(rs_settings))
Serialize(settings) == <<"json", "saved", settings.saved>>

\* what RenderSubmitterSettings.load() does: returns nothing, returns saved
\* settings (numbered), or raises PersistentDataclassError
NoSettings == 0
LoadError == -1
LoadOutcomes == {LoadError, NoSettings, 1, 2}

CmdMachine(log) ==
    [ui |-> log, result |-> <<>>, out |-> "running", loaded |-> FALSE,
     traceback |-> FALSE, applied |-> FALSE]

\* line 40: the GUI is built only in a UI mode
InUIMode(mayaState) == mayaState \in {"kInteractive", "kBaseUIMode"}

\* StepSceneCheck without the return after the dialog
StepSceneCheckNoReturn(c, scene) ==
    IF c.out # "running" THEN c
    ELSE IF scene = "" THEN [c EXCEPT !.ui = Append(@, <<"confirmDialog", 0>>)]
    ELSE c

\* lines 50-58: an unsaved scene gets a confirm dialog and the command returns
StepSceneCheck(c, scene) ==
    IF c.out # "running" THEN c
    ELSE IF scene = "" THEN [c EXCEPT !.ui = Append(@, <<"confirmDialog", 0>>),
                                      !.out = "returned"]
    ELSE c

\* StepLoad without the except clause: the error leaves the command
StepLoadPropagates(c, load) ==
    IF c.out # "running" THEN c
    ELSE IF load = LoadError
         THEN [c EXCEPT !.loaded = TRUE, !.out = "PersistentDataclassError"]
    ELSE [c EXCEPT !.loaded = TRUE]

\* lines 60-64: load the saved settings; a PersistentDataclassError is
\* printed and swallowed, and leaves maybe_rs_settings None
StepLoad(c, load) ==
    IF c.out # "running" THEN c
    ELSE [c EXCEPT !.loaded = TRUE, !.traceback = (load = LoadError)]

MaybeSettings(load) == IF load = LoadError THEN NoSettings ELSE load

\* lines 66-68
SettingsFor(load) ==
    IF MaybeSettings(load) # NoSettings
    THEN ApplySavedSettings(DefaultUISettings, MaybeSettings(load))
    ELSE DefaultUISettings

\* lines 66-74: build the settings, set the result, open the dialog
StepOpen(c, load) ==
    IF c.out # "running" THEN c
    ELSE [c EXCEPT !.applied = (MaybeSettings(load) # NoSettings),
                   !.result = <<Serialize(SettingsFor(load))>>,
                   !.ui = Append(@, <<"submitter", SettingsFor(load).saved>>),
                   !.out = "returned"]

RunDoIt(log, mayaState, scene, load) ==
    IF ~InUIMode(mayaState) THEN [CmdMachine(log) EXCEPT !.out = "returned"]
    ELSE StepOpen(StepLoad(StepSceneCheck(CmdMachine(log), scene), load), load)

doIt(mayaState, scene, load) ==
    \E c \in {RunDoIt(ui, mayaState, scene, load)} :
       /\ Len(ui) < MaxCmds
       /\ ui' = c.ui
       /\ cmdResult' = c.result
       /\ lastCmd' = [mayaState |-> mayaState, scene |-> scene, load |-> load,
                      out |-> c.out, loaded |-> c.loaded, traceback |-> c.traceback,
                      applied |-> c.applied, uiBefore |-> ui]
       /\ UNCHANGED handlerVars

(* ----------------------------- inputs --------------------------------- *)
Data(frame, cam, nx, ny, tx, ty, prefix) ==
    [frame |-> frame, cam |-> cam, numXTiles |-> nx, numYTiles |-> ny,
     tileNumX |-> tx, tileNumY |-> ty, output_file_prefix |-> prefix]

Frames == {PyInt(f) : f \in 0..MaxFrame}
\* tile counts and 1-based tile indices inside them
Tiles == {<<n, t>> \in (1..MaxTiles) \X (1..MaxTiles) : t <= n}
\* every tile of every well-formed tile job
TiledData ==
    {Data(f, "persp", PyInt(x[1]), PyInt(y[1]), PyInt(x[2]), PyInt(y[2]), PyWord(0)) :
        f \in {PyInt(0)}, x \in Tiles, y \in Tiles}
\* one axis of a job with one thing not right on it: a tile count or a tile
\* index that is left out, a string, a float or zero, or an index past the count
AxisFaults ==
    {<<n, PyInt(1)>> : n \in {None, PyStr(2), PyFloat(4), PyInt(0)}}
    \cup {<<PyInt(MaxTiles), t>> : t \in {None, PyStr(1), PyFloat(2), PyInt(0)}}
    \cup {<<None, PyStr(1)>>, <<PyStr(2), None>>, <<PyInt(1), PyInt(MaxTiles)>>}
AxisGood == {<<None, None>>, <<PyInt(MaxTiles), PyInt(1)>>}
\* jobs with one axis from AxisFaults, and the jobs without a frame or a camera
FaultData ==
    {Data(f, c, x[1], y[1], x[2], y[2], None) :
        f \in {None, PyInt(0)}, c \in {"persp", NoCamera},
        x \in AxisFaults \cup AxisGood, y \in AxisGood}
    \cup
    {Data(PyInt(0), "persp", x[1], y[1], x[2], y[2], None) :
        x \in AxisGood, y \in AxisFaults}
UntiledData ==
    {Data(f, "persp", None, None, None, None, PyWord(0)) : f \in Frames}

\* what the image_width / image_height actions may be given
DimValues ==
    {Absent, None, PyWord(0), PyFloat(1), PyFloat(3), PyStr(2)}
    \cup {PyInt(n) : n \in {-1, 0, 1, MaxDim}}
HostDims == {1, MaxDim}

(* ------------------------------ actions ------------------------------- *)
TiledRender == \E data \in TiledData : start_render(data)
FaultyRender == \E data \in FaultData : start_render(data)
UntiledRender == \E data \in UntiledData : start_render(data)
ImageWidth == \E x \in DimValues : set_image_width(x)
ImageHeight == \E x \in DimValues : set_image_height(x)
HostEdit == \E w \in HostDims, h \in HostDims : HostSetResolution(w, h)
SubmitterCmd ==
    \E mayaState \in {"kInteractive", "kBatch", "kLibraryApp", "kBaseUIMode"},
       scene \in {"", "scene.mb"}, load \in LoadOutcomes :
        doIt(mayaState, scene, load)

(* --------------------------- specifications --------------------------- *)
NoCall == [op |-> "none", data |-> <<>>, out |-> "ok", calls |-> <<>>, render |-> <<>>]
NoCmd == [mayaState |-> "none", scene |-> "", load |-> NoSettings, out |-> "none",
          loaded |-> FALSE, traceback |-> FALSE, applied |-> FALSE, uiBefore |-> <<>>]

InitCmd == ui = <<>> /\ cmdResult = <<>> /\ lastCmd = NoCmd

\* a handler just constructed, on a scene of any resolution and verbosity
Init ==
    /\ render_kwargs = InitKwargs
    /\ \E w \in HostDims, h \in HostDims, v \in 0..3 : host = InitHost(w, h, v)
    /\ lastCall = NoCall
    /\ InitCmd

Next ==
    \/ TiledRender
    \/ FaultyRender
    \/ UntiledRender
    \/ ImageWidth
    \/ ImageHeight
    \/ HostEdit
    \/ SubmitterCmd

Spec == Init /\ [][Next]_vars

\* the tile arithmetic on every image size: the size comes from the scene
\* (an empty image included) or from the image_width / image_height actions
\* run before the renders (a negative size included)
InitTile ==
    /\ \E x \in {Absent} \cup {PyInt(n) : n \in (-1)..MaxDim},
          y \in {Absent} \cup {PyInt(n) : n \in (-1)..MaxDim} :
          render_kwargs =
              RunSetResolution(RunSetResolution(InitKwargs, <<>>, "width", x).kw,
                               <<>>, "height", y).kw
    /\ \E w \in 0..MaxDim, h \in 0..MaxDim : host = InitHost(w, h, 0)
    /\ lastCall = NoCall
    /\ InitCmd

NextTile == TiledRender

SpecTile == InitTile /\ [][NextTile]_vars

\* one handler over a run of jobs, well-formed and not
InitRender ==
    /\ render_kwargs = InitKwargs
    /\ \E v \in 0..3 : host = InitHost(MaxDim, MaxDim, v)
    /\ lastCall = NoCall
    /\ InitCmd

NextRender == TiledRender \/ FaultyRender \/ UntiledRender

SpecRender == InitRender /\ [][NextRender]_vars

\* the resolution: the actions, the scene's own changes, and renders
InitRes ==
    /\ render_kwargs = InitKwargs
    /\ \E w \in HostDims, h \in HostDims : host = InitHost(w, h, 0)
    /\ lastCall = NoCall
    /\ InitCmd

ResRender ==
    \E data \in UntiledData \cup
                {d \in TiledData : d.numXTiles.v = MaxTiles /\ d.numYTiles.v = MaxTiles
                                   /\ d.tileNumX = d.tileNumY} :
        start_render(data)

NextRes == ImageWidth \/ ImageHeight \/ HostEdit \/ ResRender

SpecRes == InitRes /\ [][NextRes]_vars

\* the submitter command over one host session
InitSubmit ==
    /\ render_kwargs = InitKwargs
    /\ host = InitHost(1, 1, 0)
    /\ lastCall = NoCall
    /\ InitCmd

NextSubmit == SubmitterCmd

SpecSubmit == InitSubmit /\ [][NextSubmit]_vars

\* the scene's resolution changing under the handler, no resolution action
NextScene == HostEdit \/ ResRender

SpecScene == InitRes /\ [][NextScene]_vars

(* ------------------------ what the claims speak of -------------------- *)
\* the last handler call was start_render, and it returned
RenderDone == lastCall.op = "start_render" /\ lastCall.out = "ok"
\* the mapping gives both tile counts
BothCounts(d) == d.numXTiles.t # "none" /\ d.numYTiles.t # "none"
\* the mapping gives the value, and it is not an int
NonInteger(x) == x.t \notin {"none", "int"}
\* the host attributes a tile job writes
TileAttrs == {"regionMinX", "regionMaxX", "regionMinY", "regionMaxY", "imageFilePrefix"}
Written(calls) == {calls[i][2] : i \in {j \in DOMAIN calls : calls[j][1] = "setAttr"}}
Invocations(calls) == {i \in DOMAIN calls : calls[i][1] = "arnoldRender"}
\* the pixels of an inclusive range
Pixels(b) == b.lo .. b.hi
Max2(a, b) == IF a >= b THEN a ELSE b

(* ------------------------------- C1 ----------------------------------- *)
\* The tiles of one axis: every pixel of 0..size-1 is in exactly one of the
\* n ranges, no range leaves the image, and every range has size \div n
\* pixels but the last, which has the size % n remaining ones as well.
AxisPartition(size, n) ==
    /\ \A p \in 0..(size - 1) :
          Cardinality({t \in 1..n : p \in Pixels(TileBounds(size, n, t))}) = 1
    /\ \A t \in 1..n : Pixels(TileBounds(size, n, t)) \subseteq 0..(size - 1)
    /\ \A t \in 1..n :
          LET b == TileBounds(size, n, t)
          IN b.hi - b.lo + 1 = (size \div n) + IF t = n THEN size % n ELSE 0

\* C1: after a tiled start_render on an image of width W >= 0 and height
\* H >= 0 the region attributes hold the bounds of that tile, and the
\* regions of all Nx * Ny tiles of the job partition [0, W) x [0, H): each
\* pixel is in exactly one tile, the remainders of W mod Nx and H mod Ny in
\* the last column and the last row.
C1_TilesPartitionImage ==
    (/\ RenderDone /\ BothCounts(lastCall.data)
     /\ lastCall.render[1].kwargs.width >= 0
     /\ lastCall.render[1].kwargs.height >= 0) =>
        LET d == lastCall.data
            W == lastCall.render[1].kwargs.width
            H == lastCall.render[1].kwargs.height
            bx == TileBounds(W, d.numXTiles.v, d.tileNumX.v)
            by == TileBounds(H, d.numYTiles.v, d.tileNumY.v)
        IN /\ <<host.regionMinX, host.regionMaxX>> = <<bx.lo, bx.hi>>
           /\ <<host.regionMinY, host.regionMaxY>> = <<by.lo, by.hi>>
           /\ AxisPartition(W, d.numXTiles.v)
           /\ AxisPartition(H, d.numYTiles.v)

\* the last tile of a job whose width and height leave a remainder
C1_Witness ==
    /\ RenderDone /\ BothCounts(lastCall.data)
    /\ lastCall.data.tileNumX = lastCall.data.numXTiles
    /\ lastCall.data.tileNumY = lastCall.data.numYTiles
    /\ render_kwargs.width % lastCall.data.numXTiles.v # 0
    /\ render_kwargs.height % lastCall.data.numYTiles.v # 0
    /\ host.regionMaxX = render_kwargs.width - 1
    /\ host.regionMaxY = render_kwargs.height - 1

(* ------------------------------- C10 ---------------------------------- *)
InImage(lo, hi, size) == 0 <= lo /\ lo <= hi /\ hi <= size - 1

\* C10 as stated: for W, H >= 1 and a tile inside the job, the region
\* written is a non-empty inclusive range inside the image.
C10_RegionNonEmptyInside ==
    (/\ RenderDone /\ BothCounts(lastCall.data)
     /\ render_kwargs.width >= 1 /\ render_kwargs.height >= 1) =>
        /\ InImage(host.regionMinX, host.regionMaxX, render_kwargs.width)
        /\ InImage(host.regionMinY, host.regionMaxY, render_kwargs.height)

\* C10 amended: the same for a job with no more tiles than pixels on each
\* axis, Nx <= W and Ny <= H.
C10_RegionInsideWhenTilesFit ==
    (/\ RenderDone /\ BothCounts(lastCall.data)
     /\ lastCall.data.numXTiles.v <= render_kwargs.width
     /\ lastCall.data.numYTiles.v <= render_kwargs.height) =>
        /\ InImage(host.regionMinX, host.regionMaxX, render_kwargs.width)
        /\ InImage(host.regionMinY, host.regionMaxY, render_kwargs.height)

\* a first tile of several, on an image with a remainder
C10_Witness ==
    /\ RenderDone /\ BothCounts(lastCall.data)
    /\ lastCall.data.numXTiles.v > 1 /\ lastCall.data.tileNumX.v = 1
    /\ lastCall.data.numXTiles.v < render_kwargs.width
    /\ lastCall.data.numYTiles.v <= render_kwargs.height
    /\ host.regionMinX = 0 /\ host.regionMaxX >= 0

(* ------------------------------- C2 ----------------------------------- *)
TileValuesOf(d) == {d.numXTiles, d.numYTiles, d.tileNumX, d.tileNumY}

\* C2 as stated: start_render ends in a runtime error exactly when the
\* mapping has no frame.
C2_FailsExactlyWithoutFrame ==
    lastCall.op = "start_render" =>
        (lastCall.out = "RuntimeError" <=> lastCall.data.frame.t = "none")

\* C2 amended: without a frame start_render ends in a runtime error, with
\* no host call made, no host attribute and no render_kwargs entry changed
\* and no render; with a frame the only runtime errors are a camera that is
\* not found and a tile job with a value that is not an int; frame 0 is a
\* frame; the same mapping gives the same outcome on the next call.
C2_MissingFrameFails ==
    [][lastCall'.op = "start_render" =>
        LET d == lastCall'.data
        IN /\ d.frame.t = "none" =>
                /\ lastCall'.out = "RuntimeError"
                /\ lastCall'.calls = <<>> /\ lastCall'.render = <<>>
                /\ host' = host /\ render_kwargs' = render_kwargs
           /\ (d.frame.t # "none" /\ lastCall'.out = "RuntimeError") =>
                \/ d.cam = NoCamera
                \/ BothCounts(d) /\ \E x \in TileValuesOf(d) : x.t # "int"
           /\ (d.frame = PyInt(0) /\ d.cam # NoCamera /\ ~BothCounts(d)) =>
                /\ lastCall'.out = "ok"
                /\ render_kwargs'.seq = PyInt(0)
           /\ (lastCall.op = "start_render" /\ lastCall.data = d) =>
                lastCall'.out = lastCall.out
      ]_vars

\* a call without a frame, on a handler that has rendered before
C2_Witness ==
    /\ lastCall.op = "start_render" /\ lastCall.data.frame.t = "none"
    /\ lastCall.out = "RuntimeError"
    /\ "width" \in DOMAIN render_kwargs /\ host.renderType = 0

(* ------------------------------- C3 ----------------------------------- *)
NoHostWriteNoRender(call) ==
    call.out = "RuntimeError" /\ Written(call.calls) = {} /\ call.render = <<>>

\* C3 as stated: with a frame, a non-integer numXTiles, numYTiles, tileNumX
\* or tileNumY makes start_render fail before any host write and render.
C3_NonIntegerTileValueFails ==
    (/\ lastCall.op = "start_render" /\ lastCall.data.frame.t # "none"
     /\ \E x \in TileValuesOf(lastCall.data) : NonInteger(x)) =>
        NoHostWriteNoRender(lastCall)

\* C3 amended: that holds of the mappings that give both numXTiles and
\* numYTiles (there a tile index left out fails as well); with a tile count
\* left out the tile values are not looked at and the job renders untiled.
C3_NonIntegerFailsInTileJob ==
    lastCall.op = "start_render" =>
        LET d == lastCall.data
        IN /\ (/\ d.frame.t # "none" /\ BothCounts(d)
               /\ \E x \in TileValuesOf(d) : x.t # "int") =>
                  NoHostWriteNoRender(lastCall)
           /\ (d.frame.t # "none" /\ d.cam # NoCamera /\ ~BothCounts(d)) =>
                  /\ lastCall.out = "ok"
                  /\ Written(lastCall.calls) \cap TileAttrs = {}

\* a tile job with a string for tileNumX, after a render that wrote a tile
C3_Witness ==
    /\ lastCall.op = "start_render" /\ lastCall.data.frame.t # "none"
    /\ BothCounts(lastCall.data) /\ IsInt(lastCall.data.numXTiles)
    /\ lastCall.data.tileNumX.t = "str"
    /\ lastCall.out = "RuntimeError"
    /\ host.imageFilePrefix.tile # <<>>

(* ------------------------------- C4 ----------------------------------- *)
\* C4: with no image_width / image_height action run, the width and height
\* a start_render passes to the render command and cuts tiles from are the
\* scene's defaultResolution at that call.
C4_DefaultsToCurrentResolution ==
    (lastCall.op = "start_render" /\ lastCall.render # <<>>) =>
        LET r == lastCall.render[1]
            d == lastCall.data
        IN /\ r.kwargs.width = r.host.resW
           /\ r.kwargs.height = r.host.resH
           /\ BothCounts(d) =>
                /\ d.tileNumX = d.numXTiles => r.host.regionMaxX = r.host.resW - 1
                /\ d.tileNumY = d.numYTiles => r.host.regionMaxY = r.host.resH - 1

(* ------------------------------- C7 ----------------------------------- *)
TileWrites(call) == Written(call.calls) \cap TileAttrs

\* C7 as stated: start_render writes the four region attributes and the
\* prefix if and only if both tile counts are given.
C7_WritesIffBothCounts ==
    lastCall.op = "start_render" =>
        (TileWrites(lastCall) = TileAttrs <=> BothCounts(lastCall.data))

\* C7 amended: it writes the five if and only if both tile counts are given
\* and the call does not fail; it writes all five or none; with a tile count
\* left out the five keep their values.
C7_WritesIffTileJobRuns ==
    [][lastCall'.op = "start_render" =>
        LET d == lastCall'.data
        IN /\ TileWrites(lastCall') \in {{}, TileAttrs}
           /\ TileWrites(lastCall') = TileAttrs <=>
                (BothCounts(d) /\ lastCall'.out = "ok")
           /\ ~BothCounts(d) => \A a \in TileAttrs : host'[a] = host[a]
      ]_vars

\* an untiled render invoked with the region and the prefix of an earlier tile
C7_Witness ==
    /\ RenderDone /\ ~BothCounts(lastCall.data)
    /\ lastCall.data.numXTiles.t = "none" /\ lastCall.data.numYTiles.t = "none"
    /\ lastCall.render[1].host.imageFilePrefix.tile # <<>>
    /\ lastCall.render[1].host.regionMaxX < lastCall.render[1].kwargs.width - 1

(* ------------------------------- C8 ----------------------------------- *)
\* the number a value stands for, in halves, and its integer part
IsNumber(x) == x.t \in {"int", "float", "str"}
Halves(x) == IF x.t = "float" THEN x.v ELSE 2 * x.v
IntegerPart(x) ==
    IF x.t # "float" THEN x.v
    ELSE IF x.v >= 0 THEN x.v \div 2 ELSE -((-x.v) \div 2)

KeepsKey(key) ==
    /\ (key \in DOMAIN render_kwargs) = (key \in DOMAIN render_kwargs')
    /\ key \in DOMAIN render_kwargs => render_kwargs'[key] = render_kwargs[key]

\* C8 as stated, for one key: absent or 0 leaves the entry, a non-zero value
\* v makes it v, and nothing else changes it.
StatedFor(op, key, x) ==
    /\ lastCall'.op = op =>
          /\ x \in {Absent, PyInt(0)} => render_kwargs' = render_kwargs
          /\ (IsNumber(x) /\ x.v # 0) =>
                /\ key \in DOMAIN render_kwargs'
                /\ 2 * render_kwargs'[key] = Halves(x)
    /\ (lastCall'.op # op /\ key \in DOMAIN render_kwargs) => KeepsKey(key)

C8_NonZeroValueIsSet ==
    [][/\ StatedFor("set_image_width", "width",
                    IF lastCall'.op = "set_image_width"
                    THEN lastCall'.data.image_width ELSE Absent)
       /\ StatedFor("set_image_height", "height",
                    IF lastCall'.op = "set_image_height"
                    THEN lastCall'.data.image_height ELSE Absent)
      ]_vars

\* C8 amended, for one key: the value is converted with int(); absent or an
\* integer part of 0 (0, 0.5) leaves render_kwargs as it was, another integer
\* part becomes the entry, and a value int() rejects leaves render_kwargs as
\* it was; no other handler call changes an entry that is there, and a
\* render passes it to the render command.
AmendedFor(op, key, x) ==
    /\ lastCall'.op = op =>
          /\ (x = Absent \/ (IsNumber(x) /\ IntegerPart(x) = 0)) =>
                render_kwargs' = render_kwargs /\ lastCall'.out = "ok"
          /\ (IsNumber(x) /\ IntegerPart(x) # 0) =>
                /\ render_kwargs' = SetKw(render_kwargs, key, IntegerPart(x))
                /\ lastCall'.out = "ok"
          /\ (x # Absent /\ ~IsNumber(x)) =>
                render_kwargs' = render_kwargs /\ lastCall'.out # "ok"
    /\ (lastCall'.op # op /\ key \in DOMAIN render_kwargs) =>
          /\ KeepsKey(key)
          /\ (lastCall'.op = "start_render" /\ lastCall'.render # <<>>) =>
                lastCall'.render[1].kwargs[key] = render_kwargs[key]

C8_IntegerPartIsSet ==
    [][/\ AmendedFor("set_image_width", "width",
                     IF lastCall'.op = "set_image_width"
                     THEN lastCall'.data.image_width ELSE Absent)
       /\ AmendedFor("set_image_height", "height",
                     IF lastCall'.op = "set_image_height"
                     THEN lastCall'.data.image_height ELSE Absent)
      ]_vars

\* a render with a width no scene of the model has: the one the action set
C8_Witness ==
    /\ RenderDone
    /\ lastCall.render[1].kwargs.width \notin HostDims
    /\ lastCall.render[1].kwargs.height = lastCall.render[1].host.resH
    /\ BothCounts(lastCall.data)
    /\ host.regionMaxX = lastCall.render[1].kwargs.width - 1

(* ------------------------------- C9 ----------------------------------- *)
\* C9: a start_render invokes the render command at most once and as its
\* last host call; the command finds renderType 0, log_verbosity at
\* max(previous, 2) and every write of the call made; a call that fails
\* does not invoke it.
C9_RenderIsLastHostCall ==
    [][lastCall'.op = "start_render" =>
        LET c == lastCall'.calls
            r == lastCall'.render
        IN /\ Len(r) <= 1
           /\ Cardinality(Invocations(c)) = Len(r)
           /\ Invocations(c) \subseteq {Len(c)}
           /\ lastCall'.out # "ok" => r = <<>>
           /\ r # <<>> =>
                /\ r[1].host.renderType = 0
                /\ r[1].host.log_verbosity = Max2(host.log_verbosity, 2)
                /\ r[1].host = host'
                /\ r[1].kwargs = render_kwargs'
                /\ BothCounts(lastCall'.data) =>
                      TileAttrs \subseteq Written(SubSeq(c, 1, Len(c) - 1))
      ]_vars

\* a tile rendered in a scene whose verbosity was above 2
C9_Witness ==
    /\ RenderDone /\ BothCounts(lastCall.data)
    /\ lastCall.render[1].host.log_verbosity = 3
    /\ lastCall.render[1].host.renderType = 0
    /\ lastCall.calls[Len(lastCall.calls)][1] = "arnoldRender"

(* ------------------------------- C5 ----------------------------------- *)
UIModes == {"kInteractive", "kBaseUIMode"}

\* C5: in a UI mode with a saved scene, a load that raises
\* PersistentDataclassError does not leave the command: the result is the
\* serialized default settings, no saved settings are applied, and the
\* dialog opens with the defaults, as for a load that finds nothing.
C5_LoadErrorGivesDefaults ==
    (/\ lastCmd.mayaState \in UIModes /\ lastCmd.scene # ""
     /\ lastCmd.load \in {LoadError, NoSettings}) =>
        /\ lastCmd.out = "returned"
        /\ lastCmd.loaded /\ ~lastCmd.applied
        /\ lastCmd.traceback = (lastCmd.load = LoadError)
        /\ cmdResult = << <<"json", "saved", 0>> >>
        /\ ui = Append(lastCmd.uiBefore, <<"submitter", 0>>)

\* a failed load after a command that opened the dialog with saved settings
C5_Witness ==
    /\ lastCmd.mayaState \in UIModes /\ lastCmd.scene # ""
    /\ lastCmd.load = LoadError /\ lastCmd.traceback
    /\ Len(lastCmd.uiBefore) = 1 /\ lastCmd.uiBefore[1] = <<"submitter", 2>>
    /\ ui[Len(ui)] = <<"submitter", 0>>

(* ------------------------------- C6 ----------------------------------- *)
\* C6: in a UI mode an unsaved scene gets the confirm dialog and the
\* command returns with no settings loaded, no result and no submitter
\* dialog; the submitter dialog opens only in a UI mode with a saved scene;
\* in another mode the command does nothing.
C6_UnsavedSceneOnlyConfirms ==
    lastCmd.mayaState # "none" =>
        /\ (lastCmd.mayaState \in UIModes /\ lastCmd.scene = "") =>
              /\ lastCmd.out = "returned"
              /\ ui = Append(lastCmd.uiBefore, <<"confirmDialog", 0>>)
              /\ ~lastCmd.loaded /\ cmdResult = <<>>
        /\ (\E i \in DOMAIN ui : i > Len(lastCmd.uiBefore) /\ ui[i][1] = "submitter") =>
              lastCmd.mayaState \in UIModes /\ lastCmd.scene # ""
        /\ lastCmd.mayaState \notin UIModes =>
              /\ ui = lastCmd.uiBefore /\ cmdResult = <<>>
              /\ ~lastCmd.loaded /\ ~lastCmd.traceback

\* the confirm dialog in base-UI mode, after the dialog was opened once
C6_Witness ==
    /\ lastCmd.mayaState = "kBaseUIMode" /\ lastCmd.scene = ""
    /\ lastCmd.load \in {1, 2}
    /\ Len(ui) = 2 /\ ui[1][1] = "submitter" /\ ui[2][1] = "confirmDialog"
    /\ cmdResult = <<>>

====
